---- MODULE Spec2Model ----
(***************************************************************************)
(* The HTTP handler of the InfluxDB server (handler.go): the               *)
(* authentication gate makeAuthenticationHandler, the credential extractor *)
(* getUsernameAndPassword, the statement dispatcher serveQuery and the     *)
(* data node routes, run by concurrent requests against one shared Server. *)
(*                                                                         *)
(* Text that a request carries (the Authorization header, the names and    *)
(* passwords of statements) is a sequence of character codes; the error    *)
(* texts of the program are strings.                                       *)
(***************************************************************************)
EXTENDS Integers, Sequences, FiniteSets, TLC

(***************************************************************************)
(* Bounds of the model.                                                    *)
(***************************************************************************)
\* Number of requests served, all of them possibly in flight together.
NumReqs == 2
\* Longest statement sequence the parser hands to the dispatcher.
MaxStmts == 2

Reqs == 1..NumReqs

(***************************************************************************)
(* Text as character codes.                                                *)
(***************************************************************************)
Empty == <<>>
\* "lisa"
lisa == <<108, 105, 115, 97>>
\* "orla"
orla == <<111, 114, 108, 97>>
\* "foo"
foo == <<102, 111, 111>>
\* "bar"
bar == <<98, 97, 114>>
\* "password"
password == <<112, 97, 115, 115, 119, 111, 114, 100>>
\* "wrong"
wrong == <<119, 114, 111, 110, 103>>
\* "Basic"
Basic == <<66, 97, 115, 105, 99>>
\* "BadValue"
BadValue == <<66, 97, 100, 86, 97, 108, 117, 101>>
Space == 32
Colon == 58
Pad == 61

\* strings.Split(s, sep) for a one-character separator: the fields between
\* the separators, empty fields included; always at least one field.
RECURSIVE SplitFrom(_, _, _, _)
SplitFrom(s, sep, k, cur) ==
    IF k > Len(s) THEN <<cur>>
    ELSE IF s[k] = sep THEN <<cur>> \o SplitFrom(s, sep, k + 1, <<>>)
    ELSE SplitFrom(s, sep, k + 1, Append(cur, s[k]))

Split(s, sep) == SplitFrom(s, sep, 1, <<>>)

\* Joins fields with a separator (how a client builds "Basic <payload>" and
\* "user:password").
Join2(a, sep, b) == a \o <<sep>> \o b

\* The value of a character in the standard base64 alphabet, -1 outside it.
B64Value(c) ==
    IF c \in 65..90 THEN c - 65
    ELSE IF c \in 97..122 THEN c - 71
    ELSE IF c \in 48..57 THEN c + 4
    ELSE IF c = 43 THEN 62
    ELSE IF c = 47 THEN 63
    ELSE -1

\* The character of a 6-bit value in the standard base64 alphabet.
B64Char(v) ==
    IF v < 26 THEN v + 65
    ELSE IF v < 52 THEN v + 71
    ELSE IF v < 62 THEN v - 4
    ELSE IF v = 62 THEN 43
    ELSE 47

\* base64.StdEncoding.EncodeToString: three bytes to four characters, the
\* last group padded with '='.
RECURSIVE B64Encode(_)
B64Encode(bs) ==
    IF Len(bs) = 0 THEN <<>>
    ELSE IF Len(bs) = 1 THEN
        << B64Char(bs[1] \div 4), B64Char((bs[1] % 4) * 16), Pad, Pad >>
    ELSE IF Len(bs) = 2 THEN
        << B64Char(bs[1] \div 4),
           B64Char((bs[1] % 4) * 16 + bs[2] \div 16),
           B64Char((bs[2] % 16) * 4), Pad >>
    ELSE
        << B64Char(bs[1] \div 4),
           B64Char((bs[1] % 4) * 16 + bs[2] \div 16),
           B64Char((bs[2] % 16) * 4 + bs[3] \div 64),
           B64Char(bs[3] % 64) >> \o B64Encode(SubSeq(bs, 4, Len(bs)))

\* One quantum of four characters is well formed: alphabet characters, with
\* padding only as "xx==" or "xxx=" and only in the last quantum.
B64QuantumOK(q, last) ==
    /\ B64Value(q[1]) >= 0
    /\ B64Value(q[2]) >= 0
    /\ \/ B64Value(q[3]) >= 0 /\ B64Value(q[4]) >= 0
       \/ last /\ B64Value(q[3]) >= 0 /\ q[4] = Pad
       \/ last /\ q[3] = Pad /\ q[4] = Pad

RECURSIVE B64WellFormed(_)
B64WellFormed(s) ==
    IF Len(s) = 0 THEN TRUE
    ELSE IF Len(s) < 4 THEN FALSE
    ELSE /\ B64QuantumOK(SubSeq(s, 1, 4), Len(s) = 4)
         /\ B64WellFormed(SubSeq(s, 5, Len(s)))

RECURSIVE B64Bytes(_)
B64Bytes(s) ==
    IF Len(s) = 0 THEN <<>>
    ELSE LET v1 == B64Value(s[1])
             v2 == B64Value(s[2])
             v3 == B64Value(s[3])
             v4 == B64Value(s[4])
             b1 == v1 * 4 + v2 \div 16
             b2 == (v2 % 16) * 16 + v3 \div 4
             b3 == (v3 % 4) * 64 + v4
         IN  IF s[3] = Pad THEN <<b1>>
             ELSE IF s[4] = Pad THEN <<b1, b2>>
             ELSE <<b1, b2, b3>> \o B64Bytes(SubSeq(s, 5, Len(s)))

\* base64.StdEncoding.DecodeString: the decoded bytes, or an error.
B64Decode(s) ==
    IF B64WellFormed(s) THEN [ok |-> TRUE, bytes |-> B64Bytes(s)]
    ELSE [ok |-> FALSE, bytes |-> <<>>]

(***************************************************************************)
(* URLs and numbers in text.                                               *)
(***************************************************************************)
\* "http://a"
httpA == <<104, 116, 116, 112, 58, 47, 47, 97>>
\* "HTTP://a"
HTTPA == <<72, 84, 84, 80, 58, 47, 47, 97>>
\* "http://b"
httpB == <<104, 116, 116, 112, 58, 47, 47, 98>>
\* ":a"
NoSchemeURL == <<58, 97>>

IsLetter(c) == c \in 65..90 \/ c \in 97..122
IsDigit(c) == c \in 48..57

\* strings.ToLower on ASCII text.
ToLower(s) == [k \in 1..Len(s) |-> IF s[k] \in 65..90 THEN s[k] + 32 ELSE s[k]]

\* url.getscheme: the position of the ':' that ends the scheme; 0 when the
\* text has no scheme, -1 when it starts with ':' (missing protocol scheme).
RECURSIVE getscheme(_, _)
getscheme(s, k) ==
    IF k > Len(s) THEN 0
    ELSE IF IsLetter(s[k]) THEN getscheme(s, k + 1)
    ELSE IF IsDigit(s[k]) \/ s[k] \in {43, 45, 46}
         THEN IF k = 1 THEN 0 ELSE getscheme(s, k + 1)
    ELSE IF s[k] = Colon THEN IF k = 1 THEN -1 ELSE k
    ELSE 0

\* url.Parse: the scheme in lower case and what follows it (authority and
\* path, kept as text), or an error.
ParseURL(s) ==
    LET k == getscheme(s, 1) IN
    IF k = -1 THEN [ok |-> FALSE, url |-> [scheme |-> Empty, rest |-> Empty]]
    ELSE IF k = 0 THEN [ok |-> TRUE, url |-> [scheme |-> Empty, rest |-> s]]
    ELSE [ok |-> TRUE,
          url |-> [scheme |-> ToLower(SubSeq(s, 1, k - 1)),
                   rest |-> SubSeq(s, k + 1, Len(s))]]

\* URL.String.
URLString(u) ==
    IF u.scheme = Empty THEN u.rest ELSE Join2(u.scheme, Colon, u.rest)

\* strconv.ParseUint(s, 10, 64) for the short texts of the model: the
\* number, or an error for an empty text or a character that is no digit.
RECURSIVE DigitsValue(_)
DigitsValue(s) ==
    IF Len(s) = 0 THEN 0
    ELSE DigitsValue(SubSeq(s, 1, Len(s) - 1)) * 10 + (s[Len(s)] - 48)

ParseUint(s) ==
    IF Len(s) > 0 /\ \A k \in 1..Len(s) : IsDigit(s[k])
    THEN [ok |-> TRUE, n |-> DigitsValue(s)]
    ELSE [ok |-> FALSE, n |-> 0]

\* uint32(n) of a Go int, as two 16-bit halves: a negative n wraps around
\* modulo 2^32.
Half == 65536

\* uint32(n) that turns a negative n into 0.
Uint32Saturating(n) ==
    IF n >= 0 THEN [hi |-> (n \div Half) % Half, lo |-> n % Half]
    ELSE [hi |-> 0, lo |-> 0]

Uint32(n) ==
    IF n >= 0 THEN [hi |-> (n \div Half) % Half, lo |-> n % Half]
    ELSE LET m == -(n + 1) IN
         [hi |-> (Half - 1) - ((m \div Half) % Half),
          lo |-> (Half - 1) - (m % Half)]

(***************************************************************************)
(* HTTP status codes (net/http) and the error texts of the handler.        *)
(***************************************************************************)
StatusOK == 200
StatusCreated == 201
StatusNoContent == 204
StatusBadRequest == 400
StatusUnauthorized == 401
StatusNotFound == 404
StatusConflict == 409
StatusInternalServerError == 500
\* No WriteHeader call yet: net/http answers 200 when the handler returns.
NoStatus == 0

NoError == ""
ErrInvalidHeader == "invalid Basic Authentication header"
ErrInvalidBase64 == "invalid Base64 encoding"
ErrInvalidValue == "invalid Basic Authentication value"
ErrUsernameRequired == "username required"
ErrNoInitialAdmin == "initial admin user does not exist"
ErrInvalidNodeURL == "invalid data node url"
ErrInvalidNodeID == "invalid node id"

\* Errors of the Server.
ErrDatabaseExists == "database exists"
ErrDatabaseNotFound == "database not found"
ErrUserExists == "user exists"
ErrUserNotFound == "user not found"
ErrInvalidCredentials == "invalid username or password"
ErrRetentionPolicyExists == "retention policy exists"
ErrRetentionPolicyNotFound == "retention policy not found"
ErrDataNodeExists == "data node exists"
ErrDataNodeNotFound == "data node not found"
ErrDataNodeURLRequired == "data node url required"

Credentials(username, pass, error) ==
    [username |-> username, password |-> pass, err |-> error]

\* getUsernameAndPassword that splits the second field of the header
\* without decoding it.
getUsernameAndPasswordNoDecode(r) ==
    IF r.u # Empty /\ r.p # Empty THEN Credentials(r.u, r.p, NoError)
    ELSE IF r.auth = Empty THEN Credentials(Empty, Empty, NoError)
    ELSE LET fields == Split(r.auth, Space) IN
         IF Len(fields) # 2 THEN Credentials(Empty, Empty, ErrInvalidHeader)
         ELSE LET up == Split(fields[2], Colon) IN
              IF Len(up) # 2
              THEN Credentials(Empty, Empty, ErrInvalidValue)
              ELSE Credentials(up[1], up[2], NoError)

\* getUsernameAndPassword that looks at the Authorization header first and
\* at the query parameters only when there is no header.
getUsernameAndPasswordHeaderFirst(r) ==
    IF r.auth = Empty
    THEN IF r.u # Empty /\ r.p # Empty THEN Credentials(r.u, r.p, NoError)
         ELSE Credentials(Empty, Empty, NoError)
    ELSE LET fields == Split(r.auth, Space) IN
         IF Len(fields) # 2 THEN Credentials(Empty, Empty, ErrInvalidHeader)
         ELSE LET bs == B64Decode(fields[2]) IN
              IF ~bs.ok THEN Credentials(Empty, Empty, ErrInvalidBase64)
              ELSE LET up == Split(bs.bytes, Colon) IN
                   IF Len(up) # 2
                   THEN Credentials(Empty, Empty, ErrInvalidValue)
                   ELSE Credentials(up[1], up[2], NoError)

(***************************************************************************)
(* getUsernameAndPassword: the credentials of a request, from the query    *)
(* parameters u and p or else from the Authorization header.               *)
(***************************************************************************)
getUsernameAndPassword(r) ==
    IF r.u # Empty /\ r.p # Empty THEN Credentials(r.u, r.p, NoError)
    ELSE IF r.auth = Empty THEN Credentials(Empty, Empty, NoError)
    ELSE LET fields == Split(r.auth, Space) IN
         IF Len(fields) # 2 THEN Credentials(Empty, Empty, ErrInvalidHeader)
         ELSE LET bs == B64Decode(fields[2]) IN
              IF ~bs.ok THEN Credentials(Empty, Empty, ErrInvalidBase64)
              ELSE LET up == Split(bs.bytes, Colon) IN
                   IF Len(up) # 2
                   THEN Credentials(Empty, Empty, ErrInvalidValue)
                   ELSE Credentials(up[1], up[2], NoError)

(***************************************************************************)
(* The Server behind the handler: its users and databases, and the         *)
(* operations the handler calls.  Each operation is one atomic step of the *)
(* Server; it returns the new state and the error ("" for none).           *)
(***************************************************************************)
\* len(s.Users()) > 0 is Users(us) # {}.
Users(us) == DOMAIN us

AdminUserExists(us) == \E n \in DOMAIN us : us[n].admin

Authenticate(us, username, pass) ==
    IF username \in DOMAIN us /\ us[username].password = pass
    THEN [user |-> username, err |-> NoError]
    ELSE [user |-> Empty, err |-> ErrInvalidCredentials]

CreateUser(us, name, pass, admin) ==
    IF name = Empty THEN [users |-> us, err |-> ErrUsernameRequired]
    ELSE IF name \in DOMAIN us THEN [users |-> us, err |-> ErrUserExists]
    ELSE [users |-> [n \in DOMAIN us \cup {name} |->
                        IF n = name THEN [password |-> pass, admin |-> admin]
                        ELSE us[n]],
          err |-> NoError]

DeleteUser(us, name) ==
    IF name \notin DOMAIN us THEN [users |-> us, err |-> ErrUserNotFound]
    ELSE [users |-> [n \in DOMAIN us \ {name} |-> us[n]], err |-> NoError]

CreateDatabase(dbs, name) ==
    IF name \in dbs THEN [databases |-> dbs, err |-> ErrDatabaseExists]
    ELSE [databases |-> dbs \cup {name}, err |-> NoError]

DeleteDatabase(dbs, name) ==
    IF name \notin dbs THEN [databases |-> dbs, err |-> ErrDatabaseNotFound]
    ELSE [databases |-> dbs \ {name}, err |-> NoError]

\* NewRetentionPolicy(name) with its Duration and ReplicaN assigned.
RetentionPolicy(name, duration, replicaN) ==
    [name |-> name, duration |-> duration, replicaN |-> replicaN]

\* The retention policies are kept as (database, policy) pairs.
CreateRetentionPolicy(dbs, ps, db, rp) ==
    IF db \notin dbs THEN [policies |-> ps, err |-> ErrDatabaseNotFound]
    ELSE IF \E x \in ps : x.db = db /\ x.rp.name = rp.name
    THEN [policies |-> ps, err |-> ErrRetentionPolicyExists]
    ELSE [policies |-> ps \cup {[db |-> db, rp |-> rp]}, err |-> NoError]

UpdateRetentionPolicy(dbs, ps, db, name, rp) ==
    IF db \notin dbs THEN [policies |-> ps, err |-> ErrDatabaseNotFound]
    ELSE IF ~\E x \in ps : x.db = db /\ x.rp.name = name
    THEN [policies |-> ps, err |-> ErrRetentionPolicyNotFound]
    ELSE [policies |-> { IF x.db = db /\ x.rp.name = name
                         THEN [db |-> db, rp |-> rp] ELSE x : x \in ps },
          err |-> NoError]

\* The data nodes of the cluster: the next id to hand out and the nodes,
\* each an id and a URL.
CreateDataNode(dn, u) ==
    IF URLString(u) = Empty THEN [dataNodes |-> dn, err |-> ErrDataNodeURLRequired]
    ELSE IF \E n \in dn.nodes : URLString(n.url) = URLString(u)
    THEN [dataNodes |-> dn, err |-> ErrDataNodeExists]
    ELSE [dataNodes |-> [nextID |-> dn.nextID + 1,
                         nodes |-> dn.nodes \cup {[id |-> dn.nextID, url |-> u]}],
          err |-> NoError]

\* The node with the URL, or nil.
DataNodeByURL(dn, u) ==
    LET found == { n \in dn.nodes : URLString(n.url) = URLString(u) } IN
    IF found = {} THEN [nil |-> TRUE, id |-> 0, url |-> u]
    ELSE LET n == CHOOSE x \in found : TRUE IN
         [nil |-> FALSE, id |-> n.id, url |-> n.url]

DeleteDataNode(dn, id) ==
    IF ~\E n \in dn.nodes : n.id = id
    THEN [dataNodes |-> dn, err |-> ErrDataNodeNotFound]
    ELSE [dataNodes |-> [dn EXCEPT !.nodes = { n \in @ : n.id # id }],
          err |-> NoError]

\* The nodes in the order of their ids.
RECURSIVE SortByID(_)
SortByID(nodes) ==
    IF nodes = {} THEN <<>>
    ELSE LET n == CHOOSE x \in nodes : \A y \in nodes : x.id <= y.id IN
         <<n>> \o SortByID(nodes \ {n})

DataNodes(dn) == SortByID(dn.nodes)

(***************************************************************************)
(* Requests: what a client can send.                                       *)
(***************************************************************************)
\* influxql statements, as the parser returns them.
CreateDatabaseStatement(name) == [kind |-> "CreateDatabase", name |-> name]
DropDatabaseStatement(name) == [kind |-> "DropDatabase", name |-> name]
CreateUserStatement(name, pass) ==
    [kind |-> "CreateUser", name |-> name, password |-> pass]
DropUserStatement(name) == [kind |-> "DropUser", name |-> name]
SelectStatement == [kind |-> "Select"]
GrantStatement == [kind |-> "Grant"]
ListSeriesStatement == [kind |-> "ListSeries"]

\* The kinds of statement for which the loop of serveQuery says continue.
PassThroughKinds ==
    { "Select", "DropSeries", "ListSeries", "ListMeasurements", "ListTagKeys",
      "ListTagValues", "ListFieldKeys", "ListFieldValues", "Grant", "Revoke",
      "CreateContinuousQuery", "DropContinuousQuery", "ListContinuousQueries" }

\* The Duration and Replication of an alter-retention-policy statement are
\* pointers: nil when the clause is absent.
NilPtr == [nil |-> TRUE, v |-> 0]
Ptr(v) == [nil |-> FALSE, v |-> v]

CreateRetentionPolicyStatement(db, name, duration, replication) ==
    [kind |-> "CreateRetentionPolicy", DB |-> db, name |-> name,
     Duration |-> duration, Replication |-> replication]
AlterRetentionPolicyStatement(db, name, duration, replication) ==
    [kind |-> "AlterRetentionPolicy", DB |-> db, name |-> name,
     Duration |-> duration, Replication |-> replication]

Statements ==
    { CreateDatabaseStatement(foo),
      CreateUserStatement(lisa, password), CreateUserStatement(orla, password),
      DropUserStatement(lisa), SelectStatement }

\* The statement sequences of at most n statements.
RECURSIVE SeqsUpTo(_)
SeqsUpTo(n) ==
    IF n = 0 THEN { <<>> }
    ELSE LET shorter == SeqsUpTo(n - 1) IN
         shorter \cup { Append(q, s) : q \in { x \in shorter : Len(x) = n - 1 },
                                       s \in Statements }

\* What p.ParseQuery() returns for the q parameter: a statement sequence,
\* or an error.
Query(statements) == [Statements |-> statements, err |-> NoError]
ParseError == [Statements |-> <<>>, err |-> "parse error"]
Queries == { Query(q) : q \in SeqsUpTo(MaxStmts) } \cup { ParseError }

BasicAuth(username, pass) ==
    Join2(Basic, Space, B64Encode(Join2(username, Colon, pass)))

\* The credentials a request carries: the query parameters u and p and the
\* Authorization header.
Carried ==
    { [u |-> Empty, p |-> Empty, auth |-> Empty],
      [u |-> lisa, p |-> wrong, auth |-> Empty],
      [u |-> Empty, p |-> Empty, auth |-> BasicAuth(lisa, password)],
      [u |-> Empty, p |-> Empty, auth |-> BadValue] }

\* What json.Decode reads from the body of a create-data-node request: the
\* url field, or an error.
DataNodeJSON(url) == [url |-> url, err |-> NoError]
BadJSON == [url |-> Empty, err |-> "unexpected EOF"]

\* A request: method and path, credentials, the parsed q parameter, the
\* decoded body and the :id of the path.
HTTPRequest(method, path, c, q, body, id) ==
    [method |-> method, path |-> path, u |-> c.u, p |-> c.p, auth |-> c.auth,
     q |-> q, body |-> body, id |-> id]

Request(path, c, q) == HTTPRequest("GET", path, c, q, DataNodeJSON(Empty), Empty)

Requests ==
    { Request("/query", c, q) : c \in Carried, q \in Queries }
    \cup { Request("/ping", c, Query(<<>>)) : c \in Carried }

NoRequest == Request("", [u |-> Empty, p |-> Empty, auth |-> Empty], Query(<<>>))

(***************************************************************************)
(* State.                                                                  *)
(***************************************************************************)
VARIABLES
    AuthenticationEnabled,  \* Handler.AuthenticationEnabled
    users,                  \* the Server's users: name -> password, admin
    databases,              \* the Server's databases
    policies,               \* the Server's retention policies
    dataNodes,              \* the Server's data nodes
    pc,                     \* where each request's goroutine stands
    request,                \* the request each goroutine serves
    user,                   \* the *User the gate hands to the wrapped handler
    i,                      \* serveQuery: index of the next statement
    firstAdmin,             \* serveQuery: the evaluated !AdminUserExists()
    resp,                   \* the response written so far
    header,                 \* w.Header(): the response's header fields
    gate,                   \* the gate's locals: username, password, err
    invoked,                \* the gate called the wrapped handler fn
    calls                   \* the Server operations each dispatcher called

vars == << AuthenticationEnabled, users, databases, policies, dataNodes, pc,
           request, user, i, firstAdmin, resp, header, gate, invoked, calls >>

NilUser == [nil |-> TRUE, name |-> Empty]
User(name) == [nil |-> FALSE, name |-> name]

\* A response: the status, the error texts written by http.Error and the
\* values written by the JSON encoder.
NoResponse == [status |-> NoStatus, body |-> <<>>, json |-> <<>>]

\* Handler.error, http.Error: the first status written stands, every text
\* is written to the body.
Text(prefix, text) == <<prefix, text>>

Error(rsp, text, code) ==
    [status |-> IF rsp.status = NoStatus THEN code ELSE rsp.status,
     body |-> Append(rsp.body, text),
     json |-> rsp.json]

\* w.WriteHeader(code): the first status written stands.
WriteHeader(rsp, code) ==
    [rsp EXCEPT !.status = IF @ = NoStatus THEN code ELSE @]

\* json.NewEncoder(w).Encode(v).
Encode(rsp, v) == [rsp EXCEPT !.json = Append(@, v)]

\* The status the client reads once the handler has returned.
Status(r) == IF resp[r].status = NoStatus THEN StatusOK ELSE resp[r].status

\* The gate before it ran: no credentials extracted, authenticate not called.
NoGate ==
    [required |-> FALSE, creds |-> Credentials(Empty, Empty, NoError),
     authCall |-> <<>>, authOK |-> FALSE]

\* The Server a handler is constructed over: a new one, or one on which
\* the admin lisa was created beforehand.
NoUsers == << >>
LisaOnly == [n \in {lisa} |-> [password |-> password, admin |-> TRUE]]

\* A cluster without data nodes, and one on which the node of "http://a"
\* was created beforehand.
NoDataNodes == [nextID |-> 1, nodes |-> {}]
OneDataNode ==
    [nextID |-> 2, nodes |-> {[id |-> 1, url |-> ParseURL(httpA).url]}]

\* No request has arrived.
InitRequests ==
    /\ pc = [r \in Reqs |-> "idle"]
    /\ request = [r \in Reqs |-> NoRequest]
    /\ user = [r \in Reqs |-> NilUser]
    /\ i = [r \in Reqs |-> 0]
    /\ firstAdmin = [r \in Reqs |-> FALSE]
    /\ resp = [r \in Reqs |-> NoResponse]
    /\ header = [r \in Reqs |-> {}]
    /\ gate = [r \in Reqs |-> NoGate]
    /\ invoked = [r \in Reqs |-> FALSE]
    /\ calls = [r \in Reqs |-> <<>>]

Init ==
    /\ AuthenticationEnabled \in BOOLEAN
    /\ users \in {NoUsers, LisaOnly}
    /\ databases = {}
    /\ policies = {}
    /\ dataNodes = NoDataNodes
    /\ InitRequests

\* makeAuthenticationHandler without the test of h.AuthenticationEnabled.
makeAuthenticationHandlerAlways(r, req) ==
    IF Users(users) # {}
    THEN LET c == getUsernameAndPassword(req) IN
         /\ gate' = [gate EXCEPT ![r].required = TRUE, ![r].creds = c]
         /\ IF c.err # NoError \/ c.username = Empty
            THEN /\ resp' = [resp EXCEPT
                               ![r] = Error(@, Text("", ErrUsernameRequired),
                                            StatusUnauthorized)]
                 /\ pc' = [pc EXCEPT ![r] = "done"]
            ELSE /\ resp' = resp
                 /\ pc' = [pc EXCEPT ![r] = "authenticate"]
         /\ invoked' = invoked
    ELSE /\ gate' = gate
         /\ resp' = resp
         /\ pc' = [pc EXCEPT ![r] = "fn"]
         /\ invoked' = [invoked EXCEPT ![r] = TRUE]

\* makeAuthenticationHandler without the test of len(h.server.Users()) > 0.
makeAuthenticationHandlerNoUsersTest(r, req) ==
    IF AuthenticationEnabled
    THEN LET c == getUsernameAndPassword(req) IN
         /\ gate' = [gate EXCEPT ![r].required = TRUE, ![r].creds = c]
         /\ IF c.err # NoError
            THEN /\ resp' = [resp EXCEPT ![r] = Error(@, Text("", c.err), StatusUnauthorized)]
                 /\ pc' = [pc EXCEPT ![r] = "done"]
            ELSE IF c.username = Empty
            THEN /\ resp' = [resp EXCEPT
                               ![r] = Error(@, Text("", ErrUsernameRequired),
                                            StatusUnauthorized)]
                 /\ pc' = [pc EXCEPT ![r] = "done"]
            ELSE /\ resp' = resp
                 /\ pc' = [pc EXCEPT ![r] = "authenticate"]
         /\ invoked' = invoked
    ELSE /\ gate' = gate
         /\ resp' = resp
         /\ pc' = [pc EXCEPT ![r] = "fn"]
         /\ invoked' = [invoked EXCEPT ![r] = TRUE]

\* makeAuthenticationHandler that takes an extractor error for missing
\* credentials.
makeAuthenticationHandlerErrorAsEmpty(r, req) ==
    IF AuthenticationEnabled /\ Users(users) # {}
    THEN LET c == getUsernameAndPassword(req) IN
         /\ gate' = [gate EXCEPT ![r].required = TRUE, ![r].creds = c]
         /\ IF c.username = Empty
            THEN /\ resp' = [resp EXCEPT
                               ![r] = Error(@, Text("", ErrUsernameRequired),
                                            StatusUnauthorized)]
                 /\ pc' = [pc EXCEPT ![r] = "done"]
            ELSE /\ resp' = resp
                 /\ pc' = [pc EXCEPT ![r] = "authenticate"]
         /\ invoked' = invoked
    ELSE /\ gate' = gate
         /\ resp' = resp
         /\ pc' = [pc EXCEPT ![r] = "fn"]
         /\ invoked' = [invoked EXCEPT ![r] = TRUE]

(***************************************************************************)
(* makeAuthenticationHandler, first part: the gate decides whether the     *)
(* request must authenticate and extracts its credentials.                 *)
(***************************************************************************)
makeAuthenticationHandler(r, req) ==
    IF AuthenticationEnabled /\ Users(users) # {}
    THEN LET c == getUsernameAndPassword(req) IN
         /\ gate' = [gate EXCEPT ![r].required = TRUE, ![r].creds = c]
         /\ IF c.err # NoError
            THEN /\ resp' = [resp EXCEPT ![r] = Error(@, Text("", c.err), StatusUnauthorized)]
                 /\ pc' = [pc EXCEPT ![r] = "done"]
            ELSE IF c.username = Empty
            THEN /\ resp' = [resp EXCEPT
                               ![r] = Error(@, Text("", ErrUsernameRequired),
                                            StatusUnauthorized)]
                 /\ pc' = [pc EXCEPT ![r] = "done"]
            ELSE /\ resp' = resp
                 /\ pc' = [pc EXCEPT ![r] = "authenticate"]
         /\ invoked' = invoked
    ELSE /\ gate' = gate
         /\ resp' = resp
         /\ pc' = [pc EXCEPT ![r] = "fn"]
         /\ invoked' = [invoked EXCEPT ![r] = TRUE]

\* Handler.Version: NewHandler leaves it the empty string.
Version == ""

\* The header fields Handler.ServeHTTP adds to every response.
CORSHeaders ==
    { <<"Access-Control-Allow-Origin", "*">>,
      <<"Access-Control-Max-Age", "2592000">>,
      <<"Access-Control-Allow-Methods", "GET, POST, PUT, DELETE">>,
      <<"Access-Control-Allow-Headers",
        "Origin, X-Requested-With, Content-Type, Accept">> }
VersionHeader == <<"X-Influxdb-Version", Version>>
ContentTypeJSON == <<"content-type", "application/json">>

\* w.Header().Add(name, value).
Add(h, field) == h \cup {field}

\* Handler.ServeHTTP without the test of the method: an OPTIONS request is
\* handed to the gate like any other.
HandlerServeHTTPNoOptions(r, req) ==
    /\ request' = [request EXCEPT ![r] = req]
    /\ header' = [header EXCEPT ![r] = Add(@ \cup CORSHeaders, VersionHeader)]
    /\ makeAuthenticationHandler(r, req)

\* Handler.ServeHTTP for the request req: the header fields are added, an
\* OPTIONS request is answered 200 at once, any other request goes through
\* the mux to the gate that wraps the handler of its path.
HandlerServeHTTP(r, req) ==
    /\ request' = [request EXCEPT ![r] = req]
    /\ header' = [header EXCEPT ![r] = Add(@ \cup CORSHeaders, VersionHeader)]
    /\ IF req.method = "OPTIONS"
       THEN /\ resp' = [resp EXCEPT ![r] = WriteHeader(@, StatusOK)]
            /\ pc' = [pc EXCEPT ![r] = "done"]
            /\ UNCHANGED << gate, invoked >>
       ELSE makeAuthenticationHandler(r, req)

\* Handler.ServeHTTP: a request arrives and the mux hands it to the gate
\* that wraps the handler of its path.
ServeHTTP(r) ==
    /\ pc[r] = "idle"
    /\ \E req \in Requests :
         HandlerServeHTTP(r, req)
    /\ UNCHANGED << AuthenticationEnabled, users, databases, policies, dataNodes,
                    user, i, firstAdmin, calls >>

\* GateAuthenticate that drops the error of Authenticate: fn is called
\* with whatever user came back.
GateAuthenticateIgnoresError(r) ==
    /\ pc[r] = "authenticate"
    /\ LET c == gate[r].creds
           a == Authenticate(users, c.username, c.password)
       IN  /\ gate' = [gate EXCEPT ![r].authCall = << <<c.username, c.password>> >>,
                                   ![r].authOK = (a.err = NoError)]
           /\ resp' = resp
           /\ pc' = [pc EXCEPT ![r] = "fn"]
           /\ user' = [user EXCEPT
                         ![r] = IF a.err = NoError THEN User(a.user) ELSE NilUser]
           /\ invoked' = [invoked EXCEPT ![r] = TRUE]
    /\ UNCHANGED << header, AuthenticationEnabled, users, databases, policies, dataNodes,
                    request, i, firstAdmin, calls >>

\* GateAuthenticate without the return after h.error: the 401 is written
\* and fn is called all the same.
GateAuthenticateNoReturn(r) ==
    /\ pc[r] = "authenticate"
    /\ LET c == gate[r].creds
           a == Authenticate(users, c.username, c.password)
       IN  /\ gate' = [gate EXCEPT ![r].authCall = << <<c.username, c.password>> >>,
                                   ![r].authOK = (a.err = NoError)]
           /\ resp' = [resp EXCEPT
                         ![r] = IF a.err # NoError
                                THEN Error(@, Text("", a.err), StatusUnauthorized)
                                ELSE @]
           /\ pc' = [pc EXCEPT ![r] = "fn"]
           /\ user' = [user EXCEPT
                         ![r] = IF a.err = NoError THEN User(a.user) ELSE NilUser]
           /\ invoked' = [invoked EXCEPT ![r] = TRUE]
    /\ UNCHANGED << header, AuthenticationEnabled, users, databases, policies, dataNodes,
                    request, i, firstAdmin, calls >>

\* makeAuthenticationHandler, second part: h.server.Authenticate with the
\* extracted pair; on success the wrapped handler is next.
GateAuthenticate(r) ==
    /\ pc[r] = "authenticate"
    /\ LET c == gate[r].creds
           a == Authenticate(users, c.username, c.password)
       IN  /\ gate' = [gate EXCEPT ![r].authCall = << <<c.username, c.password>> >>,
                                   ![r].authOK = (a.err = NoError)]
           /\ IF a.err # NoError
              THEN /\ resp' = [resp EXCEPT ![r] = Error(@, Text("", a.err), StatusUnauthorized)]
                   /\ pc' = [pc EXCEPT ![r] = "done"]
                   /\ UNCHANGED << user, invoked >>
              ELSE /\ resp' = resp
                   /\ pc' = [pc EXCEPT ![r] = "fn"]
                   /\ user' = [user EXCEPT ![r] = User(a.user)]
                   /\ invoked' = [invoked EXCEPT ![r] = TRUE]
    /\ UNCHANGED << header, AuthenticationEnabled, users, databases, policies, dataNodes,
                    request, i, firstAdmin, calls >>

(***************************************************************************)
(* serveQuery.                                                             *)
(***************************************************************************)
\* Parses the query and applies the bootstrap check.  Reading
\* query.Statements[0] of an empty query is an index out of range: the
\* goroutine panics and the request gets no response.
serveQuery(r) ==
    /\ pc[r] = "fn"
    /\ request[r].path = "/query"
    /\ LET query == request[r].q
           n == Len(query.Statements)
       IN  IF query.err # NoError
           THEN /\ resp' = [resp EXCEPT
                              ![r] = Error(@, Text("error parsing query: ", query.err),
                                           StatusBadRequest)]
                /\ pc' = [pc EXCEPT ![r] = "done"]
                /\ i' = i
           ELSE IF AuthenticationEnabled /\ Users(users) # {} /\ n # 1
           THEN IF n = 0
                THEN /\ pc' = [pc EXCEPT ![r] = "panic"]
                     /\ UNCHANGED << resp, i >>
                ELSE IF query.Statements[1].kind # "CreateUser"
                THEN /\ resp' = [resp EXCEPT
                                   ![r] = Error(@, Text("", ErrNoInitialAdmin),
                                                StatusUnauthorized)]
                     /\ pc' = [pc EXCEPT ![r] = "done"]
                     /\ i' = i
                ELSE /\ pc' = [pc EXCEPT ![r] = "loop"]
                     /\ i' = [i EXCEPT ![r] = 1]
                     /\ resp' = resp
           ELSE /\ pc' = [pc EXCEPT ![r] = IF n = 0 THEN "done" ELSE "loop"]
                /\ i' = [i EXCEPT ![r] = 1]
                /\ resp' = resp
    /\ UNCHANGED << header, AuthenticationEnabled, users, databases, policies, dataNodes,
                    request, user, firstAdmin, gate, invoked, calls >>

\* The end of one iteration of the statement loop: the next statement, or
\* the return of serveQuery after the last one.
NextStatement(r) ==
    /\ i' = [i EXCEPT ![r] = @ + 1]
    /\ pc' = [pc EXCEPT ![r] = IF i[r] < Len(request[r].q.Statements)
                               THEN "loop" ELSE "done"]

\* After a Server operation of the loop: the call is recorded, an error is
\* written to the response, and the loop goes on.
AfterCall(r, s, admin, e) ==
    /\ calls' = [calls EXCEPT
                   ![r] = Append(@, [stmt |-> s, admin |-> admin, ok |-> e = NoError])]
    /\ resp' = [resp EXCEPT
                  ![r] = IF e # NoError
                         THEN Error(@, Text("error executing query: ", e),
                                    StatusBadRequest)
                         ELSE @]
    /\ NextStatement(r)

\* continue that reports an error before it goes on.
ContinueWithError(r) ==
    /\ NextStatement(r)
    /\ resp' = [resp EXCEPT
                  ![r] = Error(@, Text("error executing query: ", "not executed"),
                               StatusBadRequest)]
    /\ UNCHANGED << users, databases, policies, calls, firstAdmin >>

\* continue: the loop goes on to the next statement, nothing is called and
\* nothing is written.
Continue(r) ==
    /\ NextStatement(r)
    /\ UNCHANGED << users, databases, policies, calls, resp, firstAdmin >>

\* One iteration of the statement loop.  For a create-user statement the
\* argument !h.server.AdminUserExists() is evaluated here and CreateUser is
\* called in a step of its own.
serveQueryStatement(r) ==
    /\ pc[r] = "loop"
    /\ LET s == request[r].q.Statements[i[r]] IN
       CASE s.kind = "CreateDatabase" ->
              LET res == CreateDatabase(databases, s.name) IN
              /\ databases' = res.databases
              /\ AfterCall(r, s, FALSE, res.err)
              /\ UNCHANGED << users, policies, firstAdmin >>
         [] s.kind = "DropDatabase" ->
              LET res == DeleteDatabase(databases, s.name) IN
              /\ databases' = res.databases
              /\ policies' = IF res.err = NoError
                             THEN { x \in policies : x.db # s.name }
                             ELSE policies
              /\ AfterCall(r, s, FALSE, res.err)
              /\ UNCHANGED << users, firstAdmin >>
         [] s.kind = "CreateUser" ->
              /\ firstAdmin' = [firstAdmin EXCEPT ![r] = ~AdminUserExists(users)]
              /\ pc' = [pc EXCEPT ![r] = "createUser"]
              /\ UNCHANGED << users, databases, policies, calls, resp, i >>
         [] s.kind = "DropUser" ->
              LET res == DeleteUser(users, s.name) IN
              /\ users' = res.users
              /\ AfterCall(r, s, FALSE, res.err)
              /\ UNCHANGED << databases, policies, firstAdmin >>
         [] s.kind = "CreateRetentionPolicy" ->
              LET rp == RetentionPolicy(s.name, s.Duration, Uint32(s.Replication))
                  res == CreateRetentionPolicy(databases, policies, s.DB, rp)
              IN  /\ policies' = res.policies
                  /\ AfterCall(r, s, FALSE, res.err)
                  /\ UNCHANGED << users, databases, firstAdmin >>
         [] s.kind = "AlterRetentionPolicy" ->
              \* *c.Duration and *c.Replication: a nil pointer panics.
              IF s.Duration.nil \/ s.Replication.nil
              THEN /\ pc' = [pc EXCEPT ![r] = "panic"]
                   /\ UNCHANGED << users, databases, policies, calls, resp, i,
                                   firstAdmin >>
              ELSE LET rp == RetentionPolicy(s.name, s.Duration.v,
                                             Uint32(s.Replication.v))
                       res == UpdateRetentionPolicy(databases, policies, s.DB,
                                                    s.name, rp)
                   IN  /\ policies' = res.policies
                       /\ AfterCall(r, s, FALSE, res.err)
                       /\ UNCHANGED << users, databases, firstAdmin >>
         [] s.kind \in PassThroughKinds ->
              Continue(r)
    /\ UNCHANGED << header, AuthenticationEnabled, dataNodes, request, user, gate,
                    invoked >>

\* serveQueryCreateUser that makes every created user an admin.
serveQueryCreateUserAdmin(r) ==
    /\ pc[r] = "createUser"
    /\ LET s == request[r].q.Statements[i[r]]
           res == CreateUser(users, s.name, s.password, TRUE)
       IN  /\ users' = res.users
           /\ AfterCall(r, s, TRUE, res.err)
    /\ UNCHANGED << header, AuthenticationEnabled, databases, policies, dataNodes,
                    request, user, firstAdmin, gate, invoked >>

\* serveQueryCreateUser that never makes the created user an admin.
serveQueryCreateUserNotAdmin(r) ==
    /\ pc[r] = "createUser"
    /\ LET s == request[r].q.Statements[i[r]]
           res == CreateUser(users, s.name, s.password, FALSE)
       IN  /\ users' = res.users
           /\ AfterCall(r, s, FALSE, res.err)
    /\ UNCHANGED << header, AuthenticationEnabled, databases, policies, dataNodes,
                    request, user, firstAdmin, gate, invoked >>

\* serveQueryCreateUser that lets only an admin create users: for any other
\* resolved user the statement fails and the Server is not called.
serveQueryCreateUserAdminOnly(r) ==
    /\ pc[r] = "createUser"
    /\ LET s == request[r].q.Statements[i[r]]
           u == user[r]
           isAdmin == u.nil \/ (u.name \in DOMAIN users /\ users[u.name].admin)
           res == IF isAdmin
                  THEN CreateUser(users, s.name, s.password, firstAdmin[r])
                  ELSE [users |-> users, err |-> ErrInvalidCredentials]
       IN  /\ users' = res.users
           /\ AfterCall(r, s, firstAdmin[r], res.err)
    /\ UNCHANGED << header, AuthenticationEnabled, databases, policies, dataNodes,
                    request, user, firstAdmin, gate, invoked >>

\* h.server.CreateUser(c.Name, c.Password, <the evaluated argument>).
serveQueryCreateUser(r) ==
    /\ pc[r] = "createUser"
    /\ LET s == request[r].q.Statements[i[r]]
           res == CreateUser(users, s.name, s.password, firstAdmin[r])
       IN  /\ users' = res.users
           /\ AfterCall(r, s, firstAdmin[r], res.err)
    /\ UNCHANGED << header, AuthenticationEnabled, databases, policies, dataNodes,
                    request, user, firstAdmin, gate, invoked >>

\* servePing has an empty body.
servePing(r) ==
    /\ pc[r] = "fn"
    /\ request[r].path = "/ping"
    /\ pc' = [pc EXCEPT ![r] = "done"]
    /\ UNCHANGED << header, AuthenticationEnabled, users, databases, policies, dataNodes,
                    request, user, i, firstAdmin, resp, gate, invoked, calls >>

Next ==
    \E r \in Reqs :
        \/ ServeHTTP(r)
        \/ GateAuthenticate(r)
        \/ serveQuery(r)
        \/ serveQueryStatement(r)
        \/ serveQueryCreateUser(r)
        \/ servePing(r)

Spec == Init /\ [][Next]_vars

\* The handler over a new Server: no users yet.
InitBootstrap == Init /\ users = NoUsers

SpecBootstrap == InitBootstrap /\ [][Next]_vars

(***************************************************************************)
(* The gate and the extractor over every way of carrying credentials: the  *)
(* handler with authentication enabled over a Server that has the admin    *)
(* lisa, as NewAuthenticatedHTTPServer builds it.                          *)
(***************************************************************************)
\* "Basic !!!!": the second field is not base64.
BadBase64Header == Join2(Basic, Space, <<33, 33, 33, 33>>)
\* "Basic " and base64("lisa"): the payload has no colon.
NoColonHeader == Join2(Basic, Space, B64Encode(lisa))
\* "Basic a b": three fields.
ThreeFieldHeader == Join2(Join2(Basic, Space, <<97>>), Space, <<98>>)

AuthorizationHeaders ==
    { Empty, BasicAuth(lisa, password), BasicAuth(orla, password), BadValue,
      BadBase64Header, NoColonHeader, ThreeFieldHeader }

CredentialsCarried ==
    [u : {Empty, lisa}, p : {Empty, password, wrong}, auth : AuthorizationHeaders]

CredentialQueries ==
    { Query(<< SelectStatement >>),
      Query(<< DropUserStatement(lisa) >>),
      Query(<< CreateDatabaseStatement(foo), SelectStatement >>) }

CredentialRequests ==
    { Request("/query", c, q) : c \in CredentialsCarried, q \in CredentialQueries }
    \cup { Request("/ping", c, Query(<<>>)) : c \in CredentialsCarried }

InitCredentials ==
    /\ AuthenticationEnabled = TRUE
    /\ users = LisaOnly
    /\ databases = {}
    /\ policies = {}
    /\ dataNodes = NoDataNodes
    /\ InitRequests

\* Handler.ServeHTTP for the requests of CredentialRequests.
ServeHTTPCredentials(r) ==
    /\ pc[r] = "idle"
    /\ \E req \in CredentialRequests :
         HandlerServeHTTP(r, req)
    /\ UNCHANGED << AuthenticationEnabled, users, databases, policies, dataNodes,
                    user, i, firstAdmin, calls >>

NextCredentials ==
    \E r \in Reqs :
        \/ ServeHTTPCredentials(r)
        \/ GateAuthenticate(r)
        \/ serveQuery(r)
        \/ serveQueryStatement(r)
        \/ servePing(r)

SpecCredentials == InitCredentials /\ [][NextCredentials]_vars

(***************************************************************************)
(* The data node routes: serveDataNodes, serveCreateDataNode and           *)
(* serveDeleteDataNode.                                                    *)
(***************************************************************************)
\* dataNodeJSON{ID: n.ID, URL: n.URL.String()}.
NodeJSON(n) == [id |-> n.id, url |-> URLString(n.url)]

\* The values the JSON encoder writes: one node, or the list of all nodes.
JSONObject(n) == [kind |-> "object", nodes |-> << NodeJSON(n) >>]
JSONList(ns) == [kind |-> "list", nodes |-> [k \in 1..Len(ns) |-> NodeJSON(ns[k])]]

\* "1", "2" and "x"
NodeIDs == { <<49>>, <<50>>, <<120>> }

NodeBodies ==
    { DataNodeJSON(httpA), DataNodeJSON(HTTPA), DataNodeJSON(httpB),
      DataNodeJSON(NoSchemeURL), DataNodeJSON(Empty), BadJSON }

NodeCarried ==
    { [u |-> Empty, p |-> Empty, auth |-> Empty],
      [u |-> Empty, p |-> Empty, auth |-> BasicAuth(lisa, password)] }

NodeRequests ==
    { HTTPRequest("GET", "/data_nodes", c, Query(<<>>), DataNodeJSON(Empty), Empty) :
        c \in NodeCarried }
    \cup { HTTPRequest("POST", "/data_nodes", c, Query(<<>>), b, Empty) :
             c \in NodeCarried, b \in NodeBodies }
    \cup { HTTPRequest("DELETE", "/data_nodes/:id", c, Query(<<>>),
                       DataNodeJSON(Empty), id) :
             c \in NodeCarried, id \in NodeIDs }

serveDataNodes(r) ==
    /\ pc[r] = "fn"
    /\ request[r].method = "GET" /\ request[r].path = "/data_nodes"
    /\ header' = [header EXCEPT ![r] = Add(@, ContentTypeJSON)]
    /\ resp' = [resp EXCEPT ![r] = Encode(@, JSONList(DataNodes(dataNodes)))]
    /\ pc' = [pc EXCEPT ![r] = "done"]
    /\ UNCHANGED << AuthenticationEnabled, users, databases, policies, dataNodes,
                    request, user, i, firstAdmin, gate, invoked, calls >>

\* serveCreateDataNode up to and with h.server.CreateDataNode(url).
serveCreateDataNode(r) ==
    /\ pc[r] = "fn"
    /\ request[r].method = "POST" /\ request[r].path = "/data_nodes"
    /\ LET n == request[r].body
           u == ParseURL(n.url)
           res == CreateDataNode(dataNodes, u.url)
       IN  IF n.err # NoError
           THEN /\ resp' = [resp EXCEPT
                              ![r] = Error(@, Text("", n.err), StatusBadRequest)]
                /\ pc' = [pc EXCEPT ![r] = "done"]
                /\ dataNodes' = dataNodes
           ELSE IF ~u.ok
           THEN /\ resp' = [resp EXCEPT
                              ![r] = Error(@, Text("", ErrInvalidNodeURL),
                                           StatusBadRequest)]
                /\ pc' = [pc EXCEPT ![r] = "done"]
                /\ dataNodes' = dataNodes
           ELSE /\ dataNodes' = res.dataNodes
                /\ IF res.err = ErrDataNodeExists
                   THEN /\ resp' = [resp EXCEPT
                                      ![r] = Error(@, Text("", res.err),
                                                   StatusConflict)]
                        /\ pc' = [pc EXCEPT ![r] = "done"]
                   ELSE IF res.err # NoError
                   THEN /\ resp' = [resp EXCEPT
                                      ![r] = Error(@, Text("", res.err),
                                                   StatusInternalServerError)]
                        /\ pc' = [pc EXCEPT ![r] = "done"]
                   ELSE /\ resp' = resp
                        /\ pc' = [pc EXCEPT ![r] = "createdNode"]
    /\ UNCHANGED << header, AuthenticationEnabled, users, databases, policies, request,
                    user, i, firstAdmin, gate, invoked, calls >>

\* serveCreateDataNodeWrite that writes back the URL text of the request.
serveCreateDataNodeWriteRequestURL(r) ==
    /\ pc[r] = "createdNode"
    /\ LET url == ParseURL(request[r].body.url).url
           node == DataNodeByURL(dataNodes, url)
       IN  IF node.nil
           THEN /\ resp' = [resp EXCEPT ![r] = WriteHeader(@, StatusCreated)]
                /\ pc' = [pc EXCEPT ![r] = "panic"]
           ELSE /\ resp' = [resp EXCEPT
                              ![r] = Encode(WriteHeader(@, StatusCreated),
                                            [kind |-> "object",
                                             nodes |-> << [id |-> node.id,
                                                           url |-> request[r].body.url] >>])]
                /\ pc' = [pc EXCEPT ![r] = "done"]
    /\ header' = [header EXCEPT ![r] = Add(@, ContentTypeJSON)]
    /\ UNCHANGED << AuthenticationEnabled, users, databases, policies, dataNodes,
                    request, user, i, firstAdmin, gate, invoked, calls >>

\* serveCreateDataNode from h.server.DataNodeByURL(url) on: the node is read
\* back and written to the client.  When the node is gone, node.ID is a nil
\* dereference after the status was set: the goroutine panics.
serveCreateDataNodeWrite(r) ==
    /\ pc[r] = "createdNode"
    /\ LET url == ParseURL(request[r].body.url).url
           node == DataNodeByURL(dataNodes, url)
       IN  IF node.nil
           THEN /\ resp' = [resp EXCEPT ![r] = WriteHeader(@, StatusCreated)]
                /\ pc' = [pc EXCEPT ![r] = "panic"]
           ELSE /\ resp' = [resp EXCEPT
                              ![r] = Encode(WriteHeader(@, StatusCreated),
                                            JSONObject(node))]
                /\ pc' = [pc EXCEPT ![r] = "done"]
    /\ header' = [header EXCEPT ![r] = Add(@, ContentTypeJSON)]
    /\ UNCHANGED << AuthenticationEnabled, users, databases, policies, dataNodes,
                    request, user, i, firstAdmin, gate, invoked, calls >>

\* serveDeleteDataNode that drops the error of DeleteDataNode.
serveDeleteDataNodeIgnoresError(r) ==
    /\ pc[r] = "fn"
    /\ request[r].method = "DELETE" /\ request[r].path = "/data_nodes/:id"
    /\ LET nodeID == ParseUint(request[r].id)
           res == DeleteDataNode(dataNodes, nodeID.n)
       IN  IF ~nodeID.ok
           THEN /\ resp' = [resp EXCEPT
                              ![r] = Error(@, Text("", ErrInvalidNodeID),
                                           StatusBadRequest)]
                /\ dataNodes' = dataNodes
           ELSE /\ dataNodes' = res.dataNodes
                /\ resp' = [resp EXCEPT ![r] = WriteHeader(@, StatusNoContent)]
    /\ pc' = [pc EXCEPT ![r] = "done"]
    /\ UNCHANGED << header, AuthenticationEnabled, users, databases, policies, request,
                    user, i, firstAdmin, gate, invoked, calls >>

serveDeleteDataNode(r) ==
    /\ pc[r] = "fn"
    /\ request[r].method = "DELETE" /\ request[r].path = "/data_nodes/:id"
    /\ LET nodeID == ParseUint(request[r].id)
           res == DeleteDataNode(dataNodes, nodeID.n)
       IN  IF ~nodeID.ok
           THEN /\ resp' = [resp EXCEPT
                              ![r] = Error(@, Text("", ErrInvalidNodeID),
                                           StatusBadRequest)]
                /\ dataNodes' = dataNodes
           ELSE /\ dataNodes' = res.dataNodes
                /\ resp' = [resp EXCEPT
                              ![r] = IF res.err = ErrDataNodeNotFound
                                     THEN Error(@, Text("", res.err), StatusNotFound)
                                     ELSE IF res.err # NoError
                                     THEN Error(@, Text("", res.err),
                                                StatusInternalServerError)
                                     ELSE WriteHeader(@, StatusNoContent)]
    /\ pc' = [pc EXCEPT ![r] = "done"]
    /\ UNCHANGED << header, AuthenticationEnabled, users, databases, policies, request,
                    user, i, firstAdmin, gate, invoked, calls >>

\* The handler over a Server with or without the user lisa and with or
\* without a first data node.
InitNodes ==
    /\ AuthenticationEnabled \in BOOLEAN
    /\ users \in {NoUsers, LisaOnly}
    /\ databases = {}
    /\ policies = {}
    /\ dataNodes \in {NoDataNodes, OneDataNode}
    /\ InitRequests

\* Handler.ServeHTTP for the requests of NodeRequests.
ServeHTTPNodes(r) ==
    /\ pc[r] = "idle"
    /\ \E req \in NodeRequests :
         HandlerServeHTTP(r, req)
    /\ UNCHANGED << AuthenticationEnabled, users, databases, policies, dataNodes,
                    user, i, firstAdmin, calls >>

NextNodes ==
    \E r \in Reqs :
        \/ ServeHTTPNodes(r)
        \/ GateAuthenticate(r)
        \/ serveDataNodes(r)
        \/ serveCreateDataNode(r)
        \/ serveCreateDataNodeWrite(r)
        \/ serveDeleteDataNode(r)

SpecNodes == InitNodes /\ [][NextNodes]_vars

(***************************************************************************)
(* The retention policy statements of the dispatcher, on a handler without *)
(* authentication.                                                         *)
(***************************************************************************)
\* CREATE and ALTER RETENTION POLICY bar ON foo; an ALTER may leave out its
\* DURATION or its REPLICATION clause.
PolicyStatements ==
    { CreateDatabaseStatement(foo),
      CreateRetentionPolicyStatement(foo, bar, 1, 1),
      CreateRetentionPolicyStatement(foo, bar, 1, 70000),
      CreateRetentionPolicyStatement(foo, bar, 1, -1) }
    \cup { AlterRetentionPolicyStatement(foo, bar, d, n) :
             d \in {NilPtr, Ptr(2)}, n \in {NilPtr, Ptr(3)} }

\* The sequences of at most n statements of the set S.
RECURSIVE SeqsOver(_, _)
SeqsOver(S, n) ==
    IF n = 0 THEN { <<>> }
    ELSE LET shorter == SeqsOver(S, n - 1) IN
         shorter \cup { Append(q, s) : q \in { x \in shorter : Len(x) = n - 1 },
                                       s \in S }

PolicyRequests ==
    { Request("/query", [u |-> Empty, p |-> Empty, auth |-> Empty], Query(q)) :
        q \in SeqsOver(PolicyStatements, MaxStmts) }

InitPolicies ==
    /\ AuthenticationEnabled = FALSE
    /\ users = NoUsers
    /\ databases \in { {}, {foo} }
    /\ policies = {}
    /\ dataNodes = NoDataNodes
    /\ InitRequests

\* Handler.ServeHTTP for the requests of PolicyRequests.
ServeHTTPPolicies(r) ==
    /\ pc[r] = "idle"
    /\ \E req \in PolicyRequests :
         HandlerServeHTTP(r, req)
    /\ UNCHANGED << AuthenticationEnabled, users, databases, policies, dataNodes,
                    user, i, firstAdmin, calls >>

NextPolicies ==
    \E r \in Reqs :
        \/ ServeHTTPPolicies(r)
        \/ serveQuery(r)
        \/ serveQueryStatement(r)

SpecPolicies == InitPolicies /\ [][NextPolicies]_vars

(***************************************************************************)
(* Queries that mix statements of pass-through kinds with statements that  *)
(* call the Server.                                                        *)
(***************************************************************************)
MixedStatements ==
    { SelectStatement, GrantStatement, ListSeriesStatement,
      CreateDatabaseStatement(foo), DropUserStatement(lisa) }

MixedCarried ==
    { [u |-> Empty, p |-> Empty, auth |-> Empty],
      [u |-> lisa, p |-> password, auth |-> Empty] }

MixedRequests ==
    { Request("/query", c, Query(q)) :
        c \in MixedCarried, q \in SeqsOver(MixedStatements, MaxStmts) }

\* Handler.ServeHTTP for the requests of MixedRequests.
ServeHTTPMixed(r) ==
    /\ pc[r] = "idle"
    /\ \E req \in MixedRequests :
         HandlerServeHTTP(r, req)
    /\ UNCHANGED << AuthenticationEnabled, users, databases, policies, dataNodes,
                    user, i, firstAdmin, calls >>

NextMixed ==
    \E r \in Reqs :
        \/ ServeHTTPMixed(r)
        \/ GateAuthenticate(r)
        \/ serveQuery(r)
        \/ serveQueryStatement(r)

SpecMixed == Init /\ [][NextMixed]_vars

(***************************************************************************)
(* OPTIONS requests beside GET requests, over a Server with or without     *)
(* users and with authentication enabled or not.                           *)
(***************************************************************************)
OptionsRequests ==
    { HTTPRequest(m, "/query", c, Query(<<CreateDatabaseStatement(foo)>>),
                  DataNodeJSON(Empty), Empty) :
        m \in {"GET", "OPTIONS"}, c \in Carried }
    \cup { HTTPRequest(m, "/ping", c, Query(<<>>), DataNodeJSON(Empty), Empty) :
             m \in {"GET", "OPTIONS"}, c \in Carried }

\* Handler.ServeHTTP for the requests of OptionsRequests.
ServeHTTPOptions(r) ==
    /\ pc[r] = "idle"
    /\ \E req \in OptionsRequests :
         HandlerServeHTTP(r, req)
    /\ UNCHANGED << AuthenticationEnabled, users, databases, policies, dataNodes,
                    user, i, firstAdmin, calls >>

NextOptions ==
    \E r \in Reqs :
        \/ ServeHTTPOptions(r)
        \/ GateAuthenticate(r)
        \/ serveQuery(r)
        \/ serveQueryStatement(r)
        \/ servePing(r)

SpecOptions == Init /\ [][NextOptions]_vars

(***************************************************************************)
(* The same queries sent by the admin lisa and by orla, who is no admin,   *)
(* with authentication enabled.                                            *)
(***************************************************************************)
LisaAndOrla ==
    [n \in {lisa, orla} |-> [password |-> password, admin |-> n = lisa]]

OneDatabase == {foo}

IdentityStatements ==
    { CreateDatabaseStatement(foo), DropDatabaseStatement(foo),
      CreateUserStatement(bar, password), DropUserStatement(orla),
      CreateRetentionPolicyStatement(foo, bar, 1, 1),
      AlterRetentionPolicyStatement(foo, bar, Ptr(2), Ptr(3)) }

IdentityCarried ==
    { [u |-> n, p |-> password, auth |-> Empty] : n \in {lisa, orla} }

IdentityRequests ==
    { Request("/query", c, Query(q)) :
        c \in IdentityCarried, q \in SeqsOver(IdentityStatements, MaxStmts) }

InitIdentity ==
    /\ AuthenticationEnabled = TRUE
    /\ users = LisaAndOrla
    /\ databases \in {{}, OneDatabase}
    /\ policies = {}
    /\ dataNodes = NoDataNodes
    /\ InitRequests

\* Handler.ServeHTTP for the requests of IdentityRequests.
ServeHTTPIdentity(r) ==
    /\ pc[r] = "idle"
    /\ \E req \in IdentityRequests :
         HandlerServeHTTP(r, req)
    /\ UNCHANGED << AuthenticationEnabled, users, databases, policies, dataNodes,
                    user, i, firstAdmin, calls >>

NextIdentity ==
    \E r \in Reqs :
        \/ ServeHTTPIdentity(r)
        \/ GateAuthenticate(r)
        \/ serveQuery(r)
        \/ serveQueryStatement(r)
        \/ serveQueryCreateUser(r)

SpecIdentity == InitIdentity /\ [][NextIdentity]_vars

(***************************************************************************)
(* Definitions shared by the properties.                                   *)
(***************************************************************************)
\* The gate of request r has finished: it rejected, or it called fn.
GateDone(r) == pc[r] \notin {"idle", "authenticate"}

\* The gate of r rejected: the extractor failed, the username was empty or
\* authenticate failed.
GateRejected(r) ==
    /\ gate[r].required
    /\ pc[r] = "done"
    /\ \/ gate[r].creds.err # NoError
       \/ gate[r].creds.username = Empty
       \/ gate[r].authCall # <<>> /\ ~gate[r].authOK

\* Request r takes a step of its gate that ends in a rejection.
GateRejects(r) == pc[r] \in {"idle", "authenticate"} /\ pc'[r] = "done"

\* The dispatcher of r calls a Server operation in this step.
Calls(r) == Len(calls'[r]) > Len(calls[r])

\* The create-user calls recorded so far, as (request, position) pairs.
CreateUserCalls ==
    { rk \in Reqs \X (1..MaxStmts + 1) :
        /\ rk[2] <= Len(calls[rk[1]])
        /\ calls[rk[1]][rk[2]].stmt.kind = "CreateUser" }

IsSingleCreateUser(req) ==
    /\ req.path = "/query"
    /\ req.q.err = NoError
    /\ Len(req.q.Statements) = 1
    /\ req.q.Statements[1].kind = "CreateUser"

(***************************************************************************)
(* C1.  With authentication enabled and at least one user at the gate      *)
(* check, the gate calls the wrapped handler if and only if the extractor  *)
(* returns no error and a non-empty username and authenticate, called with *)
(* exactly the extracted pair, succeeds; otherwise the request is          *)
(* over with 401 Unauthorized.                                             *)
(***************************************************************************)
GateAdmitsExactlyAuthenticated ==
    \A r \in Reqs :
        gate[r].required /\ GateDone(r) =>
            LET c == gate[r].creds IN
            /\ invoked[r] <=>
                  /\ c.err = NoError
                  /\ c.username # Empty
                  /\ gate[r].authCall = << <<c.username, c.password>> >>
                  /\ gate[r].authOK
            /\ gate[r].authOK => user[r] = User(c.username)
            /\ ~invoked[r] =>
                  /\ pc[r] = "done"
                  /\ resp[r].status = StatusUnauthorized
                  /\ calls[r] = <<>>

\* Both outcomes of a required gate: one request admitted with its
\* credentials, another rejected.
GateAdmitsExactlyAuthenticatedWitness ==
    \E r1, r2 \in Reqs :
        /\ gate[r1].required /\ invoked[r1] /\ gate[r1].authOK
        /\ gate[r2].required /\ GateRejected(r2)

(***************************************************************************)
(* C2.  A request the gate rejects never reaches the wrapped handler and   *)
(* calls no Server operation, and the step of the gate that rejects it     *)
(* leaves the users and databases of the Server as they were.              *)
(***************************************************************************)
GateRejectionChangesNothing ==
    [][\A r \in Reqs :
          /\ GateRejects(r) => users' = users /\ databases' = databases
          /\ GateRejected(r)' => ~invoked'[r] /\ calls'[r] = <<>>]_vars

\* A request rejected for wrong credentials while the Server holds state
\* that another request created.
GateRejectionChangesNothingWitness ==
    \E r \in Reqs :
        /\ GateRejected(r)
        /\ gate[r].authCall # <<>>
        /\ databases # {}

(***************************************************************************)
(* C3.  No Server operation is called for a request whose identity is nil  *)
(* at a moment when authentication is enabled and the Server has a user.   *)
(***************************************************************************)
NoAnonymousCallOnceUsersExist ==
    [][\A r \in Reqs :
          Calls(r) /\ user[r].nil /\ AuthenticationEnabled => Users(users) = {}]_vars

(***************************************************************************)
(* C4.  With authentication enabled and a Server that starts without       *)
(* users, at most one create-user statement is ever executed (its          *)
(* CreateUser call made and successful) for a request that was not         *)
(* authenticated.                                                          *)
(***************************************************************************)
AtMostOneAnonymousCreateUser ==
    AuthenticationEnabled =>
        Cardinality({ rk \in CreateUserCalls :
                        user[rk[1]].nil /\ calls[rk[1]][rk[2]].ok }) <= 1

(***************************************************************************)
(* C5.  With authentication enabled and no admin user, a request with a    *)
(* nil identity calls a Server operation only if its query is the single   *)
(* statement create-user; any other such request ends with 401 and without *)
(* a call.                                                                 *)
(***************************************************************************)
OnlyFirstUserCreationUnauthenticated ==
    [][\A r \in Reqs :
          AuthenticationEnabled /\ ~AdminUserExists(users) /\ user[r].nil
          /\ ~IsSingleCreateUser(request'[r]) =>
              /\ ~Calls(r)
              /\ pc[r] # "done" /\ pc'[r] = "done" =>
                    resp'[r].status = StatusUnauthorized /\ calls'[r] = <<>>]_vars

(***************************************************************************)
(* C6.  Once a Server operation called for a statement of a query has      *)
(* failed, no operation is called for a later statement of that query:     *)
(* only the last call of a request can be a failed one.                    *)
(***************************************************************************)
NoCallAfterFailedStatement ==
    \A r \in Reqs :
        \A k \in 1..MaxStmts :
            k < Len(calls[r]) => calls[r][k].ok

(***************************************************************************)
(* C7.  With authentication enabled and at least one user, serveQuery      *)
(* rejects every query of more than one statement with 401 and "initial    *)
(* admin user does not exist" and executes none of its statements.         *)
(***************************************************************************)
MultiStatementQueryRejected ==
    [][\A r \in Reqs :
          /\ pc[r] = "fn" /\ pc'[r] # "fn"
          /\ request[r].path = "/query"
          /\ AuthenticationEnabled /\ Users(users) # {}
          /\ Len(request[r].q.Statements) > 1
          => /\ pc'[r] = "done"
             /\ resp'[r] = Error(NoResponse, Text("", ErrNoInitialAdmin),
                                 StatusUnauthorized)
             /\ calls'[r] = <<>>]_vars

(***************************************************************************)
(* C8.  At most one successful CreateUser call is ever made with           *)
(* isFirstAdmin = true.                                                    *)
(***************************************************************************)
AtMostOneFirstAdmin ==
    Cardinality({ rk \in CreateUserCalls :
                    calls[rk[1]][rk[2]].admin /\ calls[rk[1]][rk[2]].ok }) <= 1

(***************************************************************************)
(* C9.  For every create-user statement the dispatcher reaches it reads    *)
(* AdminUserExists() and then calls CreateUser with the statement's name   *)
(* and password and with isFirstAdmin the negation of what it read; on a   *)
(* Server without users the call succeeds, and when the Server had no      *)
(* users at the read either, the user is created as an admin.              *)
(***************************************************************************)
CreateUserPassesFirstAdmin ==
    [][\A r \in Reqs :
          /\ pc[r] = "loop" /\ pc'[r] # "loop"
             /\ request[r].q.Statements[i[r]].kind = "CreateUser"
             => /\ pc'[r] = "createUser"
                /\ firstAdmin'[r] = ~AdminUserExists(users)
                /\ calls'[r] = calls[r]
          /\ pc[r] = "createUser" /\ pc'[r] # "createUser"
             => LET s == request[r].q.Statements[i[r]]
                    exists == s.name \in Users(users)
                IN  /\ Len(calls'[r]) = Len(calls[r]) + 1
                    /\ calls'[r][Len(calls'[r])] =
                          [stmt |-> s, admin |-> firstAdmin[r], ok |-> ~exists]
                    /\ ~exists =>
                          /\ Users(users') = Users(users) \cup {s.name}
                          /\ users'[s.name] = [password |-> s.password,
                                               admin |-> firstAdmin[r]]
                    /\ exists => users' = users
                    /\ Users(users) = {} => ~exists]_vars

\* Example 3 of the specification: authentication enabled, no users, no
\* credentials, the single statement CREATE USER orla: the call was made
\* with isFirstAdmin = true and succeeded, and orla is an admin.
CreateUserPassesFirstAdminWitness ==
    \E r \in Reqs :
        /\ AuthenticationEnabled
        /\ request[r] = Request("/query", [u |-> Empty, p |-> Empty, auth |-> Empty],
                                Query(<< CreateUserStatement(orla, password) >>))
        /\ calls[r] = << [stmt |-> CreateUserStatement(orla, password),
                          admin |-> TRUE, ok |-> TRUE] >>
        /\ pc[r] = "done"
        /\ Status(r) = StatusOK
        /\ orla \in Users(users) /\ users[orla].admin
        /\ \E r2 \in Reqs :
              \E k \in 1..Len(calls[r2]) :
                  /\ calls[r2][k].stmt.kind = "CreateUser"
                  /\ ~calls[r2][k].admin

(***************************************************************************)
(* C10.  With authentication disabled the gate calls the wrapped handler   *)
(* with the nil identity for every request: it extracts no credentials,    *)
(* never calls authenticate and never answers 401.                         *)
(***************************************************************************)
DisabledGateAdmitsAll ==
    ~AuthenticationEnabled =>
        \A r \in Reqs :
            pc[r] # "idle" =>
                /\ invoked[r]
                /\ user[r] = NilUser
                /\ gate[r] = NoGate
                /\ pc[r] # "authenticate"
                /\ resp[r].status # StatusUnauthorized

\* Authentication disabled, the Server has users, and requests with
\* malformed and with wrong credentials have been served.
DisabledGateAdmitsAllWitness ==
    /\ ~AuthenticationEnabled
    /\ Users(users) # {}
    /\ \E r1, r2 \in Reqs :
          /\ pc[r1] = "done" /\ request[r1].auth = BadValue
          /\ invoked[r1] /\ calls[r1] # <<>>
          /\ pc[r2] = "done" /\ request[r2].p = wrong /\ invoked[r2]

(***************************************************************************)
(* C11.  With authentication enabled and no user on the Server at the      *)
(* gate's check, the gate calls the wrapped handler with the nil identity: *)
(* it extracts no credentials, does not call authenticate and writes no    *)
(* rejection, whatever credentials the request carries.                    *)
(***************************************************************************)
GateOpenWithoutUsers ==
    [][\A r \in Reqs :
          pc[r] = "idle" /\ pc'[r] # "idle"
          /\ AuthenticationEnabled /\ Users(users) = {}
          => /\ pc'[r] = "fn"
             /\ invoked'[r]
             /\ user'[r] = NilUser
             /\ gate'[r] = NoGate
             /\ resp'[r] = NoResponse]_vars

\* Authentication enabled: a request with a malformed header and one with a
\* wrong password went through a gate that asked nothing of them, and the
\* first had a statement executed.
GateOpenWithoutUsersWitness ==
    /\ AuthenticationEnabled
    /\ \E r1, r2 \in Reqs :
          /\ request[r1].auth = BadValue /\ gate[r1] = NoGate
          /\ invoked[r1] /\ user[r1] = NilUser
          /\ pc[r1] = "done" /\ calls[r1] # <<>>
          /\ request[r2].p = wrong /\ gate[r2] = NoGate
          /\ invoked[r2] /\ user[r2] = NilUser

\* The last entry of a non-empty sequence.
Last(q) == q[Len(q)]

\* The status the error classes of the specification give an error text.
ErrorClassStatus(e) ==
    IF e \in {ErrDatabaseNotFound, ErrUserNotFound} THEN StatusNotFound
    ELSE IF e \in {ErrDatabaseExists, ErrUserExists} THEN StatusConflict
    ELSE StatusInternalServerError

(***************************************************************************)
(* C12.  When a Server operation called for a statement fails and nothing  *)
(* was written before, the response gets the status of the error's class   *)
(* (not found 404, already exists 409, anything else 500) and the error    *)
(* text.                                                                   *)
(***************************************************************************)
BackendFailureStatusByClass ==
    [][\A r \in Reqs :
          Calls(r) /\ ~Last(calls'[r]).ok /\ resp[r] = NoResponse
          => /\ Len(resp'[r].body) = 1
             /\ resp'[r].status = ErrorClassStatus(resp'[r].body[1][2])]_vars

(***************************************************************************)
(* C13.  A query of one statement whose Server operation succeeded is      *)
(* answered with 201 Created and an empty body when the statement creates  *)
(* (a database, a user) and with 204 No Content when it deletes.           *)
(***************************************************************************)
SuccessfulStatementStatus ==
    \A r \in Reqs :
        /\ pc[r] = "done"
        /\ request[r].path = "/query"
        /\ Len(request[r].q.Statements) = 1
        /\ Len(calls[r]) = 1 /\ calls[r][1].ok
        => /\ resp[r].body = <<>>
           /\ Status(r) =
                 IF calls[r][1].stmt.kind \in {"CreateDatabase", "CreateUser"}
                 THEN StatusCreated ELSE StatusNoContent

(***************************************************************************)
(* C14.  At most one error is reported for a request: the body of a        *)
(* response never holds more than one error text.                          *)
(***************************************************************************)
AtMostOneErrorReported ==
    \A r \in Reqs : Len(resp[r].body) <= 1

(***************************************************************************)
(* C17.  A request for /ping that has been served was answered 200.        *)
(***************************************************************************)
PingAlwaysOK ==
    \A r \in Reqs :
        pc[r] = "done" /\ request[r].path = "/ping" => Status(r) = StatusOK

\* The request carries lisa and password, as the query parameters u and p
\* or in a Basic Authorization header.
CarriesLisa(req) ==
    \/ req.u = lisa /\ req.p = password
    \/ (req.u = Empty \/ req.p = Empty) /\ req.auth = BasicAuth(lisa, password)

LisaInDirectory ==
    lisa \in Users(users) /\ users[lisa].password = password

QueryParametersWin ==
    \A r \in Reqs :
        gate[r].required /\ request[r].u # Empty /\ request[r].p # Empty =>
            gate[r].creds = Credentials(request[r].u, request[r].p, NoError)

\* Two requests with the same u and p, one with a malformed header and one
\* with the well-formed header of another user, and the same extracted pair.
QueryParametersWinWitness ==
    \E r1, r2 \in Reqs :
        /\ gate[r1].required /\ gate[r2].required
        /\ request[r1].u = lisa /\ request[r1].p = wrong
        /\ request[r2].u = lisa /\ request[r2].p = wrong
        /\ request[r1].auth = BadBase64Header
        /\ request[r2].auth = BasicAuth(orla, password)
        /\ gate[r1].creds = Credentials(lisa, wrong, NoError)
        /\ gate[r2].creds = gate[r1].creds

\* Request r is a delete-data-node request whose :id is the number id.
IsDeleteOf(req, id) ==
    /\ req.method = "DELETE" /\ req.path = "/data_nodes/:id"
    /\ ParseUint(req.id).ok /\ ParseUint(req.id).n = id

\* The ids of the data nodes of the cluster.
NodeIDsOf(dn) == { n.id : n \in dn.nodes }

(***************************************************************************)
(* C18.  A delete-data-node request for an id answers 204 No Content       *)
(* exactly when the node exists at the call, and the node is gone after    *)
(* it; otherwise it answers 404 Not Found and changes nothing.  So of two  *)
(* deletes of one id with no create in between at most the first answers   *)
(* 204, and a delete of an id never handed out answers 404: a node comes   *)
(* into being only by a create request, with the next id, and every node   *)
(* has an id below the next id.                                            *)
(***************************************************************************)
DeleteDataNodeOnce ==
    [][/\ \A n \in dataNodes.nodes : n.id < dataNodes.nextID
       /\ \A id \in NodeIDsOf(dataNodes') \ NodeIDsOf(dataNodes) :
             /\ id = dataNodes.nextID
             /\ \E r \in Reqs : /\ pc[r] = "fn" /\ pc'[r] # "fn"
                                /\ request[r].method = "POST"
       /\ \A r \in Reqs : \A id \in 0..(NumReqs + 2) :
          pc[r] = "fn" /\ pc'[r] # "fn" /\ IsDeleteOf(request[r], id)
          => /\ pc'[r] = "done"
             /\ id \notin NodeIDsOf(dataNodes')
             /\ dataNodes'.nextID = dataNodes.nextID
             /\ IF id \in NodeIDsOf(dataNodes)
                THEN /\ resp'[r] = WriteHeader(NoResponse, StatusNoContent)
                     /\ dataNodes'.nodes = { n \in dataNodes.nodes : n.id # id }
                ELSE /\ resp'[r] = Error(NoResponse, Text("", ErrDataNodeNotFound),
                                         StatusNotFound)
                     /\ dataNodes' = dataNodes]_vars

\* Two deletes of the node 1: one answered 204, the other 404.
DeleteDataNodeOnceWitness ==
    \E r1, r2 \in Reqs :
        /\ IsDeleteOf(request[r1], 1) /\ IsDeleteOf(request[r2], 1)
        /\ pc[r1] = "done" /\ resp[r1].status = StatusNoContent
        /\ pc[r2] = "done" /\ resp[r2].status = StatusNotFound
        /\ resp[r2].body = << Text("", ErrDataNodeNotFound) >>

\* The entries of a list of nodes that have the URL text u.
EntriesWithURL(nodes, u) == { k \in 1..Len(nodes) : nodes[k].url = u }

(***************************************************************************)
(* C19.  When a create-data-node request is answered 201 with the id i and *)
(* the URL u (the text of the parsed request URL), the list of the data    *)
(* nodes at that moment has exactly one entry with the URL u and its id    *)
(* is i; a list request is answered with that list; and a create for a     *)
(* URL that a node already has is answered 409 Conflict and leaves the     *)
(* nodes as they were.                                                     *)
(***************************************************************************)
CreateDataNodeRoundTrip ==
    [][\A r \in Reqs :
          /\ pc[r] = "createdNode" /\ pc'[r] = "done"
             => LET list == JSONList(DataNodes(dataNodes')).nodes
                    u == URLString(ParseURL(request[r].body.url).url)
                IN  /\ resp'[r].status = StatusCreated
                    /\ Len(resp'[r].json) = 1
                    /\ resp'[r].json[1].kind = "object"
                    /\ resp'[r].json[1].nodes[1].url = u
                    /\ Cardinality(EntriesWithURL(list, u)) = 1
                    /\ \A k \in EntriesWithURL(list, u) :
                          list[k].id = resp'[r].json[1].nodes[1].id
          /\ pc[r] = "fn" /\ pc'[r] # "fn"
             /\ request[r].method = "GET" /\ request[r].path = "/data_nodes"
             => /\ resp'[r].json = << JSONList(DataNodes(dataNodes)) >>
                /\ resp'[r].status = NoStatus
                /\ dataNodes' = dataNodes
          /\ pc[r] = "fn" /\ pc'[r] # "fn"
             /\ request[r].method = "POST" /\ request[r].path = "/data_nodes"
             /\ request[r].body.err = NoError
             /\ ParseURL(request[r].body.url).ok
             /\ (\E n \in dataNodes.nodes :
                    URLString(n.url) = URLString(ParseURL(request[r].body.url).url))
             => /\ pc'[r] = "done"
                /\ resp'[r] = Error(NoResponse, Text("", ErrDataNodeExists),
                                    StatusConflict)
                /\ dataNodes' = dataNodes]_vars

\* "HTTP://a" was created with 201 and the id 1, and a list request that
\* followed shows one entry for "http://a", with the id 1.
CreateDataNodeRoundTripWitness ==
    \E r1, r2 \in Reqs :
        /\ request[r1].method = "POST" /\ request[r1].body = DataNodeJSON(HTTPA)
        /\ pc[r1] = "done" /\ resp[r1].status = StatusCreated
        /\ resp[r1].json = << [kind |-> "object",
                               nodes |-> << [id |-> 1, url |-> httpA] >>] >>
        /\ request[r2].method = "GET" /\ pc[r2] = "done"
        /\ resp[r2].json = << [kind |-> "list",
                               nodes |-> << [id |-> 1, url |-> httpA] >>] >>

\* "http://a" exists and a create for "HTTP://a" was answered 409.
CreateDataNodeConflictWitness ==
    \E r \in Reqs :
        /\ request[r].method = "POST" /\ request[r].body = DataNodeJSON(HTTPA)
        /\ pc[r] = "done" /\ resp[r].status = StatusConflict
        /\ dataNodes = OneDataNode

(***************************************************************************)
(* C20.  When the dispatcher reaches an alter-retention-policy statement   *)
(* without a duration or without a replication, the request gets a 400     *)
(* response, UpdateRetentionPolicy is not called and the goroutine does    *)
(* not panic.                                                              *)
(***************************************************************************)
AlterWithoutFieldIsBadRequest ==
    [][\A r \in Reqs :
          /\ pc[r] = "loop"
          /\ pc'[r] # "loop" \/ i'[r] # i[r]
          /\ request[r].q.Statements[i[r]].kind = "AlterRetentionPolicy"
          /\ \/ request[r].q.Statements[i[r]].Duration.nil
             \/ request[r].q.Statements[i[r]].Replication.nil
          => /\ pc'[r] # "panic"
             /\ resp'[r].status = StatusBadRequest
             /\ calls'[r] = calls[r]
             /\ policies' = policies]_vars

\* What is wrong with an Authorization header, as the claim puts it: not two
\* space-separated fields, a second field that is no base64, or a payload
\* that is not two colon-separated fields; "" for a well-formed header.
HeaderFault(auth) ==
    IF Len(Split(auth, Space)) # 2 THEN ErrInvalidHeader
    ELSE IF ~B64Decode(Split(auth, Space)[2]).ok THEN ErrInvalidBase64
    ELSE IF Len(Split(B64Decode(Split(auth, Space)[2]).bytes, Colon)) # 2
    THEN ErrInvalidValue
    ELSE NoError

\* The request has no usable pair of query parameters and a header that is
\* present and malformed.
MalformedHeaderOnly(req) ==
    /\ req.u = Empty \/ req.p = Empty
    /\ req.auth # Empty
    /\ HeaderFault(req.auth) # NoError

(***************************************************************************)
(* C21.  With authentication enabled and at least one user, a request      *)
(* without a usable u and p whose Authorization header is malformed (not   *)
(* two fields, no base64, no user:password payload) is rejected by the     *)
(* gate with 401 and the extractor's message for that fault; authenticate  *)
(* is not called and the wrapped handler is not invoked.                   *)
(***************************************************************************)
MalformedHeaderRejected ==
    [][\A r \in Reqs :
          pc[r] = "idle" /\ pc'[r] # "idle"
          /\ AuthenticationEnabled /\ Users(users) # {}
          /\ MalformedHeaderOnly(request'[r])
          => /\ pc'[r] = "done"
             /\ resp'[r] = Error(NoResponse,
                                 Text("", HeaderFault(request'[r].auth)),
                                 StatusUnauthorized)
             /\ gate'[r].authCall = <<>>
             /\ ~invoked'[r]
             /\ calls'[r] = <<>>
             /\ users' = users]_vars

\* A header that is no base64 and a header without a colon in its payload,
\* each rejected with its own message.
MalformedHeaderRejectedWitness ==
    \E r1, r2 \in Reqs :
        /\ request[r1].auth = BadBase64Header /\ request[r1].u = Empty
        /\ resp[r1] = Error(NoResponse, Text("", ErrInvalidBase64),
                            StatusUnauthorized)
        /\ request[r2].auth = NoColonHeader /\ request[r2].p = Empty
        /\ resp[r2] = Error(NoResponse, Text("", ErrInvalidValue),
                            StatusUnauthorized)
        /\ gate[r1].authCall = <<>> /\ gate[r2].authCall = <<>>
        /\ ~invoked[r1] /\ ~invoked[r2]

\* The unsigned 32-bit count c, given as two 16-bit halves, is the signed
\* value n taken modulo 2^32: n itself when n >= 0, and 2^32 + n when n < 0
\* (stated as (2^32 - 1) - c = -(n + 1); the values of n are below 2^31 in
\* size, so the upper half of c, or of its complement, is below 2^15).
IsUint32Of(c, n) ==
    /\ c.hi \in 0..(Half - 1) /\ c.lo \in 0..(Half - 1)
    /\ IF n >= 0
       THEN /\ c.hi < Half \div 2
            /\ c.hi * Half + c.lo = n
       ELSE /\ (Half - 1) - c.hi < Half \div 2
            /\ ((Half - 1) - c.hi) * Half + ((Half - 1) - c.lo) = -(n + 1)

(***************************************************************************)
(* C22.  For a create-retention-policy statement the dispatcher calls      *)
(* CreateRetentionPolicy with a policy whose ReplicaN is the statement's   *)
(* Replication converted to uint32: the same number when it is not         *)
(* negative, and wrapped modulo 2^32 when it is (-1 becomes 4294967295 =   *)
(* 65535 * 65536 + 65535).                                                 *)
(***************************************************************************)
ReplicationConvertedToUint32 ==
    [][\A r \in Reqs :
          /\ pc[r] = "loop"
          /\ pc'[r] # "loop" \/ i'[r] # i[r]
          /\ request[r].q.Statements[i[r]].kind = "CreateRetentionPolicy"
          => LET s == request[r].q.Statements[i[r]] IN
             /\ Calls(r)
             /\ Last(calls'[r]).stmt = s
             /\ \E c \in [hi : {0, 1, Half - 1}, lo : {1, 4464, Half - 1}] :
                   /\ IsUint32Of(c, s.Replication)
                   /\ policies' =
                        CreateRetentionPolicy(databases, policies, s.DB,
                            RetentionPolicy(s.name, s.Duration, c)).policies
             /\ Last(calls'[r]).ok =>
                   \E x \in policies' :
                      /\ x.db = s.DB /\ x.rp.name = s.name
                      /\ IsUint32Of(x.rp.replicaN, s.Replication)]_vars

\* CREATE RETENTION POLICY with REPLICATION -1 was executed and the policy
\* of the Server has the replica count 4294967295.
ReplicationConvertedToUint32Witness ==
    \E r \in Reqs :
        /\ calls[r] # <<>>
        /\ Last(calls[r]).stmt = CreateRetentionPolicyStatement(foo, bar, 1, -1)
        /\ Last(calls[r]).ok
        /\ \E x \in policies :
              x.rp.replicaN = [hi |-> Half - 1, lo |-> Half - 1]

(***************************************************************************)
(* C25.  The bootstrap check of serveQuery never indexes an empty          *)
(* statement sequence: no request for /query whose query has no statement  *)
(* ends in a panic.                                                        *)
(***************************************************************************)
EmptyQueryNeverPanics ==
    \A r \in Reqs :
        request[r].path = "/query" /\ Len(request[r].q.Statements) = 0
        => pc[r] # "panic"

\* A drop-user call has succeeded: a user was removed from the Server.
SomeUserDropped ==
    \E r \in Reqs : \E k \in 1..Len(calls[r]) :
        calls[r][k].stmt.kind = "DropUser" /\ calls[r][k].ok

NoCredentials(req) == req.u = Empty /\ req.p = Empty /\ req.auth = Empty

CreatedNodeAlwaysFound ==
    [][\A r \in Reqs :
          pc[r] = "createdNode" /\ pc'[r] # "createdNode"
          => /\ pc'[r] = "done"
             /\ resp'[r].status = StatusCreated
             /\ Len(resp'[r].json) = 1]_vars

IsPassThrough(s) == s.kind \in PassThroughKinds
IsBackendStatement(s) == s.kind \notin PassThroughKinds

\* The query of r has a statement, and only statements of pass-through
\* kinds.
OnlyPassThrough(r) ==
    /\ request[r].path = "/query" /\ request[r].q.err = NoError
    /\ Len(request[r].q.Statements) > 0
    /\ \A k \in 1..Len(request[r].q.Statements) :
          IsPassThrough(request[r].q.Statements[k])

Iterated(r) ==
    SubSeq(request[r].q.Statements, 1, IF i[r] = 0 THEN 0 ELSE i[r] - 1)

OptionsBeforeGate ==
    \A r \in Reqs :
        pc[r] # "idle" =>
            /\ CORSHeaders \subseteq header[r]
            /\ VersionHeader \in header[r]
            /\ request[r].method = "OPTIONS" =>
                  /\ pc[r] = "done"
                  /\ resp[r] = WriteHeader(NoResponse, StatusOK)
                  /\ gate[r] = NoGate
                  /\ ~invoked[r]
                  /\ user[r] = NilUser
                  /\ calls[r] = <<>>

\* With authentication enabled and lisa in the directory, an OPTIONS request
\* for /query without credentials was answered 200, and a GET request with
\* a wrong password was rejected 401; both carry the header fields.
OptionsBeforeGateWitness ==
    \E r1, r2 \in Reqs :
        /\ AuthenticationEnabled /\ Users(users) # {}
        /\ request[r1].method = "OPTIONS" /\ request[r1].path = "/query"
        /\ request[r1].u = Empty /\ request[r1].auth = Empty
        /\ pc[r1] = "done" /\ Status(r1) = StatusOK /\ resp[r1].body = <<>>
        /\ request[r2].method = "GET" /\ request[r2].p = wrong
        /\ pc[r2] = "done" /\ Status(r2) = StatusUnauthorized
        /\ gate[r2].authCall # <<>>
        /\ CORSHeaders \cup {VersionHeader} \subseteq header[r1] \cap header[r2]

\* What the Server answers to the statement s in the state (us, dbs, ps);
\* admin is the flag a create-user statement passes.
ServerResult(s, admin, us, dbs, ps) ==
    LET same == [users |-> us, databases |-> dbs, policies |-> ps] IN
    CASE s.kind = "CreateDatabase" ->
           LET res == CreateDatabase(dbs, s.name) IN
           [same EXCEPT !.databases = res.databases] @@ [err |-> res.err]
      [] s.kind = "DropDatabase" ->
           LET res == DeleteDatabase(dbs, s.name) IN
           [same EXCEPT !.databases = res.databases,
                        !.policies = IF res.err = NoError
                                     THEN { x \in ps : x.db # s.name } ELSE ps]
           @@ [err |-> res.err]
      [] s.kind = "CreateUser" ->
           LET res == CreateUser(us, s.name, s.password, admin) IN
           [same EXCEPT !.users = res.users] @@ [err |-> res.err]
      [] s.kind = "DropUser" ->
           LET res == DeleteUser(us, s.name) IN
           [same EXCEPT !.users = res.users] @@ [err |-> res.err]
      [] s.kind = "CreateRetentionPolicy" ->
           LET res == CreateRetentionPolicy(dbs, ps, s.DB,
                          RetentionPolicy(s.name, s.Duration, Uint32(s.Replication)))
           IN  [same EXCEPT !.policies = res.policies] @@ [err |-> res.err]
      [] s.kind = "AlterRetentionPolicy" ->
           LET res == UpdateRetentionPolicy(dbs, ps, s.DB, s.name,
                          RetentionPolicy(s.name, s.Duration.v,
                                          Uint32(s.Replication.v)))
           IN  [same EXCEPT !.policies = res.policies] @@ [err |-> res.err]

\* The request r is served for a user the gate resolved.
Authenticated(r) == invoked[r] /\ ~user[r].nil

\* C27: what the dispatcher does for an authenticated request is a function
\* of the query and of the Server's state, whoever the resolved user is.  The
\* bootstrap check lets every well-formed query of one statement through to
\* the loop and writes nothing; each Server call of the loop changes the
\* Server as the statement alone demands, records the Server's answer and
\* writes to the response the Server's error, if any, and nothing else.
IdentityIndependentDispatch ==
    [][\A r \in Reqs :
         Authenticated(r) /\ (pc'[r] # pc[r] \/ i'[r] # i[r]) =>
           LET q == request[r].q.Statements IN
           /\ pc[r] = "fn" /\ request[r].q.err = NoError /\ Len(q) = 1 =>
                 pc'[r] = "loop" /\ i'[r] = 1 /\ resp'[r] = resp[r]
           /\ pc[r] = "createUser" \/ (pc[r] = "loop" /\ q[i[r]].kind # "CreateUser") =>
                 LET s == q[i[r]]
                     admin == IF pc[r] = "createUser" THEN firstAdmin[r] ELSE FALSE
                     o == ServerResult(s, admin, users, databases, policies)
                 IN  /\ users' = o.users
                     /\ databases' = o.databases
                     /\ policies' = o.policies
                     /\ calls'[r] = Append(calls[r], [stmt |-> s, admin |-> admin,
                                                      ok |-> o.err = NoError])
                     /\ resp'[r] = IF o.err = NoError THEN resp[r]
                                   ELSE Error(resp[r],
                                              Text("error executing query: ", o.err),
                                              StatusBadRequest)
                     /\ i'[r] = i[r] + 1
      ]_vars

\* The admin lisa and orla, who is no admin, sent the same query, DROP
\* DATABASE foo, to a Server without that database: both were admitted, both
\* made the one call, and both read the same response.
IdentityIndependentDispatchWitness ==
    \E r1, r2 \in Reqs :
        /\ user[r1] = User(lisa) /\ user[r2] = User(orla)
        /\ users = LisaAndOrla
        /\ request[r1].q = request[r2].q
        /\ request[r1].q.Statements = <<DropDatabaseStatement(foo)>>
        /\ pc[r1] = "done" /\ pc[r2] = "done"
        /\ Len(calls[r1]) = 1 /\ calls[r1] = calls[r2]
        /\ resp[r1] = resp[r2] /\ Status(r1) = StatusBadRequest

\* orla, who is no admin, created the user bar, and dropped the database foo
\* in another request: both calls succeeded.
NonAdminExecutesWitness ==
    \E r1, r2 \in Reqs :
        /\ user[r1] = User(orla) /\ user[r2] = User(orla)
        /\ ~LisaAndOrla[orla].admin
        /\ request[r1].q.Statements = <<CreateUserStatement(bar, password)>>
        /\ request[r2].q.Statements = <<DropDatabaseStatement(foo)>>
        /\ pc[r1] = "done" /\ pc[r2] = "done"
        /\ Len(calls[r1]) = 1 /\ calls[r1][1].ok
        /\ Len(calls[r2]) = 1 /\ calls[r2][1].ok
        /\ Status(r1) = StatusOK /\ Status(r2) = StatusOK

====
